---- MODULE Spec2Model ----
(***************************************************************************)
(* KeyResolve (snap-tap): the poll-driven capture/emit loop of main() and  *)
(* the per-axis last-input-wins resolver it contains (src/src/main.rs).    *)
(*                                                                         *)
(* The state is the loop's position, the cancellation flag `running`, the  *)
(* four held flags, the events of the drain in progress and the stream of  *)
(* emit calls made on the virtual device.  `inlog` records the events the  *)
(* loop has read and dispatched so far, in read order.                     *)
(***************************************************************************)
EXTENDS Integers, Sequences, FiniteSets

VARIABLES
    pc,            \* position of main(): "top" (while condition, l.103), "poll"
                   \* (l.105), "fetch" (l.122), "drain" (for body, l.122-191),
                   \* "done" (left the loop and returned after calling ungrab,
                   \* l.195-197), "error" (early return, l.108 or l.122)
    running,       \* the AtomicBool of l.79; FALSE once Ctrl+C was handled
    a_down, d_down, w_down, s_down,   \* l.88-91
    buf,           \* events of the current fetch_events() not yet dispatched
    sink,          \* every vdev.emit call so far, in call order
    inlog,         \* every event dispatched so far, in read order
    result,        \* what main() returned: "none" while it runs, "ok", "err"
    errKind,       \* which operation made main() fail: "none", "poll", "read", "ungrab"
    ungrabCalled,  \* dev.ungrab() (l.196) has been called
    ready          \* how the wait of the current iteration ended (`ready` and
                   \* `revents`, l.105-119, locals of the loop body): "none"
                   \* before the iteration has waited, else one of PollOutcomes

vars == <<pc, running, a_down, d_down, w_down, s_down, buf, sink, inlog,
          result, errKind, ungrabCalled, ready>>

flagvars == <<a_down, d_down, w_down, s_down>>

-----------------------------------------------------------------------------
\* Bounds of the model.
MaxEvents == 3       \* events read in one run of Spec
MaxAxisEvents == 4   \* events read in one run of SpecAxis
MaxLiveEvents == 2   \* events read in one run of SpecLive
MaxFails == 1        \* emit calls the virtual device rejects in one run

-----------------------------------------------------------------------------
\* Events.  value: 1 = Pressed, 0 = Released, 2 = Repeated.
AxisKeys == {"KEY_A", "KEY_D", "KEY_W", "KEY_S"}
OtherKeys == {"KEY_SPACE"}
KeyValues == {0, 1, 2}

KeyEvent(code, value) == [type |-> "KEY", code |-> code, value |-> value]

KeyEvents == {KeyEvent(k, v) : k \in AxisKeys \cup OtherKeys, v \in KeyValues}
NonKeyEvents == {[type |-> "SYN", code |-> "SYN_REPORT", value |-> 0]}
Events == KeyEvents \cup NonKeyEvents
AxisTransitions == {KeyEvent(k, v) : k \in AxisKeys, v \in {0, 1}}

SeqsUpTo(S, n) == UNION {[1..m -> S] : m \in 0..n}

-----------------------------------------------------------------------------
\* The resolver: the body of the for loop, l.123-190.

Flags == [a_down |-> a_down, d_down |-> d_down, w_down |-> w_down, s_down |-> s_down]

\* fn emit (l.200-203) builds a KEY event for key/value and hands it to vdev.emit.
emit(key, value) == KeyEvent(key, value)

When(cond, acts) == IF cond THEN acts ELSE <<>>

\* ABranch with `ev.value() != 0` in place of `== 1`: a repeat counts as a press.
ABranch_RepeatAsPress(ev, st) ==
    IF ev.value # 0
    THEN [st   |-> [st EXCEPT !.a_down = TRUE],
          acts |-> <<emit("KEY_A", 1)>> \o When(st.d_down, <<emit("KEY_D", 0)>>)]
    ELSE [st   |-> [st EXCEPT !.a_down = FALSE],
          acts |-> <<emit("KEY_A", 0)>> \o When(st.d_down, <<emit("KEY_D", 1)>>)]

\* ABranch pasted from the S arm with the partner left unedited: it tests
\* s_down and emits KEY_S.
ABranch_WrongPartner(ev, st) ==
    IF ev.value = 1
    THEN [st   |-> [st EXCEPT !.a_down = TRUE],
          acts |-> <<emit("KEY_A", 1)>> \o When(st.s_down, <<emit("KEY_S", 0)>>)]
    ELSE IF ev.value = 0
    THEN [st   |-> [st EXCEPT !.a_down = FALSE],
          acts |-> <<emit("KEY_A", 0)>> \o When(st.s_down, <<emit("KEY_S", 1)>>)]
    ELSE [st |-> st, acts |-> <<>>]

\* l.125-139
ABranch(ev, st) ==
    IF ev.value = 1
    THEN [st   |-> [st EXCEPT !.a_down = TRUE],
          acts |-> <<emit("KEY_A", 1)>> \o When(st.d_down, <<emit("KEY_D", 0)>>)]
    ELSE IF ev.value = 0
    THEN [st   |-> [st EXCEPT !.a_down = FALSE],
          acts |-> <<emit("KEY_A", 0)>> \o When(st.d_down, <<emit("KEY_D", 1)>>)]
    ELSE [st |-> st, acts |-> <<>>]

\* DBranch without the `if a_down { emit(KEY_A, 0) }` of the press arm.
DBranch_NoSuppress(ev, st) ==
    IF ev.value = 1
    THEN [st   |-> [st EXCEPT !.d_down = TRUE],
          acts |-> <<emit("KEY_D", 1)>>]
    ELSE IF ev.value = 0
    THEN [st   |-> [st EXCEPT !.d_down = FALSE],
          acts |-> <<emit("KEY_D", 0)>> \o When(st.a_down, <<emit("KEY_A", 1)>>)]
    ELSE [st |-> st, acts |-> <<>>]

\* DBranch whose release arm forgets `d_down = false`.
DBranch_StickyFlag(ev, st) ==
    IF ev.value = 1
    THEN [st   |-> [st EXCEPT !.d_down = TRUE],
          acts |-> <<emit("KEY_D", 1)>> \o When(st.a_down, <<emit("KEY_A", 0)>>)]
    ELSE IF ev.value = 0
    THEN [st   |-> st,
          acts |-> <<emit("KEY_D", 0)>> \o When(st.a_down, <<emit("KEY_A", 1)>>)]
    ELSE [st |-> st, acts |-> <<>>]

\* l.140-154
DBranch(ev, st) ==
    IF ev.value = 1
    THEN [st   |-> [st EXCEPT !.d_down = TRUE],
          acts |-> <<emit("KEY_D", 1)>> \o When(st.a_down, <<emit("KEY_A", 0)>>)]
    ELSE IF ev.value = 0
    THEN [st   |-> [st EXCEPT !.d_down = FALSE],
          acts |-> <<emit("KEY_D", 0)>> \o When(st.a_down, <<emit("KEY_A", 1)>>)]
    ELSE [st |-> st, acts |-> <<>>]

\* WBranch with the partner's emit placed before the key's own in both arms.
WBranch_PartnerFirst(ev, st) ==
    IF ev.value = 1
    THEN [st   |-> [st EXCEPT !.w_down = TRUE],
          acts |-> When(st.s_down, <<emit("KEY_S", 0)>>) \o <<emit("KEY_W", 1)>>]
    ELSE IF ev.value = 0
    THEN [st   |-> [st EXCEPT !.w_down = FALSE],
          acts |-> When(st.s_down, <<emit("KEY_S", 1)>>) \o <<emit("KEY_W", 0)>>]
    ELSE [st |-> st, acts |-> <<>>]

\* WBranch without the `if s_down { emit(KEY_S, 0) }` of the press arm.
WBranch_NoSuppress(ev, st) ==
    IF ev.value = 1
    THEN [st   |-> [st EXCEPT !.w_down = TRUE],
          acts |-> <<emit("KEY_W", 1)>>]
    ELSE IF ev.value = 0
    THEN [st   |-> [st EXCEPT !.w_down = FALSE],
          acts |-> <<emit("KEY_W", 0)>> \o When(st.s_down, <<emit("KEY_S", 1)>>)]
    ELSE [st |-> st, acts |-> <<>>]

\* l.155-169
WBranch(ev, st) ==
    IF ev.value = 1
    THEN [st   |-> [st EXCEPT !.w_down = TRUE],
          acts |-> <<emit("KEY_W", 1)>> \o When(st.s_down, <<emit("KEY_S", 0)>>)]
    ELSE IF ev.value = 0
    THEN [st   |-> [st EXCEPT !.w_down = FALSE],
          acts |-> <<emit("KEY_W", 0)>> \o When(st.s_down, <<emit("KEY_S", 1)>>)]
    ELSE [st |-> st, acts |-> <<>>]

\* SBranch without the `if w_down { emit(KEY_W, 1) }` of the release arm.
SBranch_NoRestore(ev, st) ==
    IF ev.value = 1
    THEN [st   |-> [st EXCEPT !.s_down = TRUE],
          acts |-> <<emit("KEY_S", 1)>> \o When(st.w_down, <<emit("KEY_W", 0)>>)]
    ELSE IF ev.value = 0
    THEN [st   |-> [st EXCEPT !.s_down = FALSE],
          acts |-> <<emit("KEY_S", 0)>>]
    ELSE [st |-> st, acts |-> <<>>]

\* l.170-184
SBranch(ev, st) ==
    IF ev.value = 1
    THEN [st   |-> [st EXCEPT !.s_down = TRUE],
          acts |-> <<emit("KEY_S", 1)>> \o When(st.w_down, <<emit("KEY_W", 0)>>)]
    ELSE IF ev.value = 0
    THEN [st   |-> [st EXCEPT !.s_down = FALSE],
          acts |-> <<emit("KEY_S", 0)>> \o When(st.w_down, <<emit("KEY_W", 1)>>)]
    ELSE [st |-> st, acts |-> <<>>]

\* OtherBranch that swallows auto-repeat like the axis branches do.
OtherBranch_DropRepeat(ev, st) ==
    [st |-> st, acts |-> When(ev.value # 2, <<ev>>)]

\* l.185-188: any other key is forwarded as it came
OtherBranch(ev, st) == [st |-> st, acts |-> <<ev>>]

\* Resolve with an else arm that forwards what is not a KEY event.
Resolve_ForwardNonKey(ev, st) ==
    IF ev.type = "KEY"
    THEN CASE ev.code = "KEY_A" -> ABranch(ev, st)
           [] ev.code = "KEY_D" -> DBranch(ev, st)
           [] ev.code = "KEY_W" -> WBranch(ev, st)
           [] ev.code = "KEY_S" -> SBranch(ev, st)
           [] OTHER -> OtherBranch(ev, st)
    ELSE [st |-> st, acts |-> <<ev>>]

\* l.123-190: only KEY events enter the match; the if has no else
Resolve(ev, st) ==
    IF ev.type = "KEY"
    THEN CASE ev.code = "KEY_A" -> ABranch(ev, st)
           [] ev.code = "KEY_D" -> DBranch(ev, st)
           [] ev.code = "KEY_W" -> WBranch(ev, st)
           [] ev.code = "KEY_S" -> SBranch(ev, st)
           [] OTHER -> OtherBranch(ev, st)
    ELSE [st |-> st, acts |-> <<>>]

\* Deliver that queues an event's actions ahead of the ones already handed over.
Deliver_Prepend(s, acts, src, oks) ==
    [i \in 1..Len(acts) |-> [ev |-> acts[i], src |-> src, ok |-> oks[i]]] \o s

\* Deliver as it would be if a failed emit were propagated with `?`: the calls
\* of the event that follow the first failure are never made.
Deliver_StopAtFailure(s, acts, src, oks) ==
    LET bad  == {i \in 1..Len(acts) : ~oks[i]}
        last == IF bad = {} THEN Len(acts) ELSE CHOOSE i \in bad : \A j \in bad : i <= j
    IN  s \o [i \in 1..last |-> [ev |-> acts[i], src |-> src, ok |-> oks[i]]]

\* The emit calls of one event reach the device one by one, in the order made;
\* each call's Result is discarded (l.187, l.202).
Deliver(s, acts, src, oks) ==
    s \o [i \in 1..Len(acts) |-> [ev |-> acts[i], src |-> src, ok |-> oks[i]]]

-----------------------------------------------------------------------------
Init ==
    /\ pc = "top"
    /\ running = TRUE
    /\ a_down = FALSE /\ d_down = FALSE /\ w_down = FALSE /\ s_down = FALSE
    /\ buf = <<>>
    /\ sink = <<>>
    /\ inlog = <<>>
    /\ result = "none"
    /\ errKind = "none"
    /\ ungrabCalled = FALSE
    /\ ready = "none"

\* ctrlc handler, l.82-84
Cancel ==
    /\ result = "none"
    /\ running = TRUE
    /\ running' = FALSE
    /\ UNCHANGED <<pc, flagvars, buf, sink, inlog, result, errKind, ungrabCalled, ready>>

\* A loop that starts its next wait without looking at the flag.
LoopCheck_IgnoreFlag ==
    /\ pc = "top"
    /\ pc' = "poll"
    /\ ready' = "none"
    /\ UNCHANGED <<running, flagvars, buf, sink, inlog, result, errKind, ungrabCalled>>

\* while running.load() finds the flag set, l.103
LoopCheck ==
    /\ pc = "top"
    /\ running
    /\ pc' = "poll"
    /\ ready' = "none"
    /\ UNCHANGED <<running, flagvars, buf, sink, inlog, result, errKind, ungrabCalled>>

\* The outcomes of poll(&mut poll_fds, 50) and of the revents test, l.105-119.
PollOutcomes == {"EINTR", "error", "timeout", "norevents", "notPOLLIN", "POLLIN"}

\* AfterPoll without the EINTR arm of l.107: an interrupted wait is returned
\* like any other poll error.
AfterPoll_EintrFatal(outcome) ==
    CASE outcome = "EINTR"     -> "error"
      [] outcome = "error"     -> "error"
      [] outcome = "timeout"   -> "top"
      [] outcome = "norevents" -> "top"
      [] outcome = "notPOLLIN" -> "top"
      [] outcome = "POLLIN"    -> "fetch"

\* AfterPoll without the POLLIN test of l.117-119: any readiness is read.
AfterPoll_ReadsWithoutPollin(outcome) ==
    CASE outcome = "EINTR"     -> "top"
      [] outcome = "error"     -> "error"
      [] outcome = "timeout"   -> "top"
      [] outcome = "norevents" -> "top"
      [] outcome = "notPOLLIN" -> "fetch"
      [] outcome = "POLLIN"    -> "fetch"

AfterPoll(outcome) ==
    CASE outcome = "EINTR"     -> "top"
      [] outcome = "error"     -> "error"
      [] outcome = "timeout"   -> "top"
      [] outcome = "norevents" -> "top"
      [] outcome = "notPOLLIN" -> "top"
      [] outcome = "POLLIN"    -> "fetch"

Poll ==
    /\ pc = "poll"
    /\ \E outcome \in PollOutcomes :
         /\ ready' = outcome
         /\ pc' = AfterPoll(outcome)
         /\ result' = IF pc' = "error" THEN "err" ELSE result
         /\ errKind' = IF pc' = "error" THEN "poll" ELSE errKind
    /\ UNCHANGED <<running, flagvars, buf, sink, inlog, ungrabCalled>>

\* dev.fetch_events()? succeeds, l.122
FetchOk(E, max) ==
    /\ pc = "fetch"
    /\ \E evs \in SeqsUpTo(E, max - Len(inlog)) :
         /\ buf' = evs
         /\ pc' = IF evs = <<>> THEN "top" ELSE "drain"
    /\ UNCHANGED <<running, flagvars, sink, inlog, result, errKind, ungrabCalled, ready>>

\* A read error that is swallowed: the loop goes back to its top.
AfterReadError_Continue == "top"

\* where main() continues after fetch_events() returned Err, l.122
AfterReadError == "error"

\* dev.fetch_events()? fails, l.122
FetchErr ==
    /\ pc = "fetch"
    /\ pc' = AfterReadError
    /\ result' = IF pc' = "error" THEN "err" ELSE result
    /\ errKind' = "read"
    /\ UNCHANGED <<running, flagvars, buf, sink, inlog, ungrabCalled, ready>>

\* A for body that looks at the flag first and breaks out of the drain when
\* it is cleared, leaving the rest of the batch undispatched.
DispatchEv_BreakOnCancel(maxFails) ==
    /\ pc = "drain"
    /\ buf # <<>>
    /\ IF ~running
       THEN /\ pc' = "top"
            /\ UNCHANGED <<flagvars, buf, sink, inlog>>
       ELSE LET ev == Head(buf)
                r  == Resolve(ev, Flags)
            IN /\ a_down' = r.st.a_down
               /\ d_down' = r.st.d_down
               /\ w_down' = r.st.w_down
               /\ s_down' = r.st.s_down
               /\ \E oks \in [1..Len(r.acts) -> BOOLEAN] :
                    /\ sink' = Deliver(sink, r.acts, Len(inlog) + 1, oks)
                    /\ Cardinality({i \in DOMAIN sink' : ~sink'[i].ok}) <= maxFails
               /\ inlog' = Append(inlog, ev)
               /\ buf' = Tail(buf)
               /\ pc' = IF Tail(buf) = <<>> THEN "top" ELSE "drain"
    /\ UNCHANGED <<running, result, errKind, ungrabCalled, ready>>

\* One pass of the for body, l.122-191.  Each emit call succeeds or fails, at
\* most maxFails of them failing in a run; the loop goes on either way.
DispatchEv(maxFails) ==
    /\ pc = "drain"
    /\ buf # <<>>
    /\ LET ev == Head(buf)
           r  == Resolve(ev, Flags)
       IN /\ a_down' = r.st.a_down
          /\ d_down' = r.st.d_down
          /\ w_down' = r.st.w_down
          /\ s_down' = r.st.s_down
          /\ \E oks \in [1..Len(r.acts) -> BOOLEAN] :
               /\ sink' = Deliver(sink, r.acts, Len(inlog) + 1, oks)
               /\ Cardinality({i \in DOMAIN sink' : ~sink'[i].ok}) <= maxFails
          /\ inlog' = Append(inlog, ev)
    /\ buf' = Tail(buf)
    /\ pc' = IF Tail(buf) = <<>> THEN "top" ELSE "drain"
    /\ UNCHANGED <<running, result, errKind, ungrabCalled, ready>>

\* while running.load() finds the flag cleared (l.103), then
\* println + dev.ungrab()? + Ok(()), l.195-197
Exit ==
    /\ pc = "top"
    /\ ~running
    /\ ungrabCalled' = TRUE
    /\ pc' = "done"
    /\ ready' = "none"
    /\ \E ok \in BOOLEAN :
         /\ result' = IF ok THEN "ok" ELSE "err"
         /\ errKind' = IF ok THEN errKind ELSE "ungrab"
    /\ UNCHANGED <<running, flagvars, buf, sink, inlog>>

Fetch == FetchOk(Events, MaxEvents)
Dispatch == DispatchEv(MaxFails)

\* The same loop fed only Pressed/Released transitions of the four axis keys,
\* with a device that accepts every emit.
FetchAxis == FetchOk(AxisTransitions, MaxAxisEvents)
DispatchOk == DispatchEv(0)

Next == Cancel \/ LoopCheck \/ Poll \/ Fetch \/ FetchErr \/ Dispatch \/ Exit
Spec == Init /\ [][Next]_vars

NextAxis == Cancel \/ LoopCheck \/ Poll \/ FetchAxis \/ FetchErr \/ DispatchOk \/ Exit
SpecAxis == Init /\ [][NextAxis]_vars

\* The loop under its scheduling: main() runs on its own thread, so whichever
\* step it is at is eventually taken; poll returns within its 50 ms timeout
\* (l.105) and fetch_events returns a finite batch.  Nothing obliges Ctrl+C.
FetchLive == FetchOk(Events, MaxLiveEvents)
LoopStep == LoopCheck \/ Poll \/ FetchLive \/ FetchErr \/ Dispatch \/ Exit
NextLive == Cancel \/ LoopStep
SpecLive == Init /\ [][NextLive]_vars /\ WF_vars(LoopStep)

-----------------------------------------------------------------------------
\* What the claims speak of, read off the two logs.

AxisPairs == {{"KEY_A", "KEY_D"}, {"KEY_W", "KEY_S"}}

Partner(k) ==
    CASE k = "KEY_A" -> "KEY_D"
      [] k = "KEY_D" -> "KEY_A"
      [] k = "KEY_W" -> "KEY_S"
      [] k = "KEY_S" -> "KEY_W"

Pressed(k) == KeyEvent(k, 1)
Released(k) == KeyEvent(k, 0)
Repeated(k) == KeyEvent(k, 2)

MaxOf(S) == CHOOSE x \in S : \A y \in S : y <= x

\* The held flag the code keeps for axis key k.
HeldFlag(k) ==
    CASE k = "KEY_A" -> a_down
      [] k = "KEY_D" -> d_down
      [] k = "KEY_W" -> w_down
      [] k = "KEY_S" -> s_down

\* Output k is active when the last press/release of k the device accepted is a press.
Delivered(k) ==
    {i \in DOMAIN sink : sink[i].ok /\ sink[i].ev.type = "KEY"
                         /\ sink[i].ev.code = k /\ sink[i].ev.value \in {0, 1}}
Active(k) == Delivered(k) # {} /\ sink[MaxOf(Delivered(k))].ev.value = 1
ActiveOf(pair) == {k \in pair : Active(k)}

AllEmitsOk == \A i \in DOMAIN sink : sink[i].ok
SinkEvents == [i \in DOMAIN sink |-> sink[i].ev]

\* Key k is physically held when the last press/release read for k is a press.
PhysHeld(k) ==
    \E i \in DOMAIN inlog :
        /\ inlog[i] = Pressed(k)
        /\ \A j \in (i + 1)..Len(inlog) : inlog[j] # Released(k)
Presses(pair) == {i \in DOMAIN inlog : inlog[i] \in {Pressed(k) : k \in pair}}
LastPressed(pair) == inlog[MaxOf(Presses(pair))].code

\* The output of a pair that last-pressed-wins with restoration asks for.
Winner(pair) ==
    LET held == {k \in pair : PhysHeld(k)}
    IN  IF Cardinality(held) <= 1 THEN held ELSE {LastPressed(pair)}

\* The step that dispatches the event at the head of the drain.
DispatchStep == pc = "drain" /\ buf # <<>> /\ inlog' = Append(inlog, Head(buf))
LastEvent == inlog[Len(inlog)]
EmitsOfLast == {i \in DOMAIN sink : sink[i].src = Len(inlog)}

-----------------------------------------------------------------------------
\* C1 (SpecAxis).  Mutual exclusion per source event: with every emit
\* succeeding, after each fully processed Pressed/Released transition at most
\* one key of each axis pair has a press as its last emitted action.
C1_MutualExclusion ==
    AllEmitsOk => \A pair \in AxisPairs : Cardinality(ActiveOf(pair)) <= 1

\* Both keys of the horizontal pair are held and exactly one output is active.
C1_Witness ==
    /\ AllEmitsOk /\ a_down /\ d_down
    /\ Cardinality(ActiveOf({"KEY_A", "KEY_D"})) = 1

\* C2 (SpecAxis).  Last-pressed-wins with restoration: with every emit
\* succeeding, the active outputs of a pair are exactly the most recently
\* pressed member still physically held; the one held member when only one is
\* held; none when neither is held.
C2_LastPressedWins ==
    AllEmitsOk => \A pair \in AxisPairs : ActiveOf(pair) = Winner(pair)

\* S was released while W, pressed before it, is still held: W's output is
\* restored by the last emit.
C2_Witness ==
    /\ Len(inlog) >= 3 /\ LastEvent = Released("KEY_S")
    /\ inlog[Len(inlog) - 1] = Pressed("KEY_S")
    /\ PhysHeld("KEY_W") /\ Active("KEY_W") /\ ~Active("KEY_S")
    /\ sink # <<>> /\ sink[Len(sink)] = [ev |-> Pressed("KEY_W"), src |-> Len(inlog), ok |-> TRUE]

\* C3 (SpecAxis).  The reference scenario: Pressed(X), Pressed(Y), Released(Y),
\* Released(X) on a pair emits exactly Pressed(X), Pressed(Y), Released(X),
\* Released(Y), Pressed(X), Released(X); the first three inputs emit the first five.
Scenario(x, y) == <<Pressed(x), Pressed(y), Released(y), Released(x)>>
ScenarioOutput(x, y) ==
    <<Pressed(x), Pressed(y), Released(x), Released(y), Pressed(x), Released(x)>>

C3_ReferenceScenario ==
    \A x \in AxisKeys :
        LET y == Partner(x)
        IN  /\ (AllEmitsOk /\ inlog = Scenario(x, y))
                 => SinkEvents = ScenarioOutput(x, y)
            /\ (AllEmitsOk /\ inlog = SubSeq(Scenario(x, y), 1, 3))
                 => SinkEvents = SubSeq(ScenarioOutput(x, y), 1, 5)

\* The whole scenario was read on the vertical pair, W first.
C3_Witness ==
    /\ inlog = Scenario("KEY_W", "KEY_S") /\ buf = <<>>
    /\ AllEmitsOk /\ Len(sink) = 6

\* What a dispatch step that forwards the dispatched event itself does to the
\* emit stream: one more call, carrying that event, accepted or not.
ForwardsHead ==
    /\ Len(sink') = Len(sink) + 1
    /\ SubSeq(sink', 1, Len(sink)) = sink
    /\ sink'[Len(sink')].ev = Head(buf)

\* C4 (Spec).  No phantom duplicate: dispatching Pressed(X) for an axis key X
\* whose held flag is already true makes no emit call and changes no held flag.
C4_NoPhantomDuplicate ==
    [][ (DispatchStep /\ Head(buf) \in {Pressed(k) : k \in AxisKeys}
           /\ HeldFlag(Head(buf).code))
        => (sink' = sink /\ UNCHANGED flagvars) ]_vars

\* C5 (Spec).  Idempotent repeat: dispatching a Repeated transition of an axis
\* key makes no emit call and changes none of the four held flags.
C5_RepeatIdempotent ==
    [][ (DispatchStep /\ Head(buf) \in {Repeated(k) : k \in AxisKeys})
        => (sink' = sink /\ UNCHANGED flagvars) ]_vars

\* A repeat of A was dispatched while A and D were both held, and nothing was
\* emitted for it.
C5_Witness ==
    /\ Len(inlog) >= 3 /\ LastEvent = Repeated("KEY_A")
    /\ a_down /\ d_down /\ EmitsOfLast = {}

\* C6 (Spec).  Passthrough fidelity: dispatching a KEY event of a key outside
\* both pairs, whatever its value, makes exactly one emit call, carrying the
\* event as read, and changes none of the four held flags.
C6_PassthroughFidelity ==
    [][ (DispatchStep /\ Head(buf).type = "KEY" /\ Head(buf).code \notin AxisKeys)
        => (ForwardsHead /\ UNCHANGED flagvars) ]_vars

\* A repeat of the space key was dispatched while an axis key was held, and
\* the one emit made for it carries the same event.
C6_Witness ==
    /\ Len(inlog) >= 2 /\ LastEvent = Repeated("KEY_SPACE")
    /\ s_down
    /\ Cardinality(EmitsOfLast) = 1
    /\ sink[Len(sink)].src = Len(inlog) /\ sink[Len(sink)].ev = LastEvent

C8_OrderPreserved ==
    /\ \A i \in DOMAIN sink : sink[i].src \in DOMAIN inlog
    /\ \A i \in 1..(Len(sink) - 1) :
         /\ sink[i].src <= sink[i + 1].src
         /\ sink[i].src = sink[i + 1].src
            => LET e == inlog[sink[i].src]
               IN  /\ e.type = "KEY" /\ e.code \in AxisKeys
                   /\ sink[i].ev.code = e.code
                   /\ sink[i + 1].ev.code = Partner(e.code)

\* Two events were dispatched, the second with two emit calls after the
\* first one's single call.
C8_Witness ==
    /\ Len(sink) >= 3
    /\ sink[1].src = 1 /\ sink[2].src = 2 /\ sink[3].src = 2
    /\ sink[2].ev.code # sink[3].ev.code

\* C9 (Spec).  The exclusive grab is released on every exit path: whenever
\* main() has returned, by cancellation or by a poll or read error,
\* dev.ungrab() has been called.
C9_GrabReleasedOnExit == result # "none" => ungrabCalled

\* C10 (Spec).  A hard read error ends the run at once and is returned as an
\* error: the failing read leaves main() returned with Err, and from then on
\* no event is dispatched, no emit is made, no flag changes and no wait starts.
C10_ReadErrorTerminates ==
    [][ (errKind' = "read")
        => (/\ pc' = "error" /\ result' = "err"
            /\ sink' = sink /\ inlog' = inlog /\ buf' = buf
            /\ UNCHANGED flagvars /\ ungrabCalled' = ungrabCalled) ]_vars

\* A read failed after an earlier drain had been dispatched and emitted.
C10_Witness ==
    /\ errKind = "read" /\ pc = "error" /\ result = "err"
    /\ Len(inlog) >= 1 /\ Len(sink) >= 1

\* C11 (SpecLive).  Cancellation eventually stops the loop: the signal is
\* one-way; once it is set main() eventually returns; with the signal set no
\* new wait is started (so at most the wait in progress completes after it);
\* the normal return happens only with the signal set; and nothing happens
\* after main() has returned.
Stopped == pc \in {"done", "error"}

C11_CancellationStops ==
    /\ (~running) ~> Stopped
    /\ [][ (~running => ~running')
           /\ (~running /\ pc # "poll" => pc' # "poll")
           /\ (pc' = "done" => ~running)
           /\ ~Stopped ]_vars

\* The signal arrived during a drain and main() returned Ok afterwards.
C11_Witness ==
    /\ pc = "done" /\ result = "ok" /\ ~running /\ Len(inlog) >= 1

\* The outputs of a pair that are active after the first n emit calls.
DeliveredAt(k, n) == {i \in Delivered(k) : i <= n}
ActiveAt(k, n) == DeliveredAt(k, n) # {} /\ sink[MaxOf(DeliveredAt(k, n))].ev.value = 1
ActiveOfAt(pair, n) == {k \in pair : ActiveAt(k, n)}
\* The first n calls end between the two calls made for one source event.
MidEvent(n) == n >= 1 /\ n < Len(sink) /\ sink[n].src = sink[n + 1].src

\* C12 (SpecAxis), as claimed.  Mutual exclusion at every instant: after each
\* single action delivered to the sink at most one output of a pair is active.
C12_ExclusiveAtEveryInstant ==
    AllEmitsOk => \A n \in 0..Len(sink) : \A pair \in AxisPairs :
                      Cardinality(ActiveOfAt(pair, n)) <= 1

\* C12 (SpecAxis), amended.  After each single action delivered, at most one
\* output of a pair is active, except between the two actions of one source
\* event: there the event's own key has just been acted on and its partner's
\* suppression or restoration is still to come.
C12_ExclusiveBetweenEvents ==
    AllEmitsOk => \A n \in 0..Len(sink) : \A pair \in AxisPairs :
                      \/ Cardinality(ActiveOfAt(pair, n)) <= 1
                      \/ /\ MidEvent(n)
                         /\ sink[n].ev = Pressed(inlog[sink[n].src].code)
                         /\ sink[n + 1].ev = Released(Partner(sink[n].ev.code))

\* Pressed(S) was dispatched while W was held and active: after its first
\* emit both W and S are active, after its second only S.
C12_Witness ==
    /\ AllEmitsOk /\ Len(sink) = 3 /\ MidEvent(2)
    /\ ActiveOfAt({"KEY_W", "KEY_S"}, 2) = {"KEY_W", "KEY_S"}
    /\ ActiveOfAt({"KEY_W", "KEY_S"}, 3) = {"KEY_S"}

\* C13 (Spec).  Held flags track physical truth: in every reachable state each
\* of the four flags is true exactly when the last Pressed/Released transition
\* read for its key is a Pressed (false when none was read); Repeated
\* transitions and events of other keys do not enter into it.
C13_FlagsTrackPhysical ==
    \A k \in AxisKeys : HeldFlag(k) = PhysHeld(k)

\* D was pressed and released, then its auto-repeat arrived: the flag is false.
C13_Witness ==
    /\ inlog = <<Pressed("KEY_D"), Released("KEY_D"), Repeated("KEY_D")>>
    /\ ~d_down

\* The emit calls a step adds to the stream, as events.
NewEmits == [i \in 1..(Len(sink') - Len(sink)) |-> sink'[Len(sink) + i].ev]
PairOf(k) == CHOOSE pair \in AxisPairs : k \in pair
OtherPair(k) == CHOOSE pair \in AxisPairs : k \notin pair
\* The flags with those of the keys in `pair` replaced by the values in f.
FlagsWith(pair, f) ==
    [a_down |-> IF "KEY_A" \in pair THEN f["KEY_A"] ELSE a_down,
     d_down |-> IF "KEY_D" \in pair THEN f["KEY_D"] ELSE d_down,
     w_down |-> IF "KEY_W" \in pair THEN f["KEY_W"] ELSE w_down,
     s_down |-> IF "KEY_S" \in pair THEN f["KEY_S"] ELSE s_down]

\* C14 (Spec).  Axis independence: dispatching any event of a key of one pair
\* leaves the other pair's two flags unchanged, emits only actions for keys of
\* its own pair, and emits the same actions whatever the other pair's flags are.
C14_AxisIndependence ==
    [][ (DispatchStep /\ Head(buf).type = "KEY" /\ Head(buf).code \in AxisKeys)
        => LET k == Head(buf).code
           IN  /\ \A o \in OtherPair(k) : HeldFlag(o)' = HeldFlag(o)
               /\ Len(sink') >= Len(sink)
               /\ SubSeq(sink', 1, Len(sink)) = sink
               /\ \A i \in DOMAIN NewEmits : NewEmits[i].code \in PairOf(k)
               /\ \A f \in [OtherPair(k) -> BOOLEAN] :
                    NewEmits = Resolve(Head(buf), FlagsWith(OtherPair(k), f)).acts ]_vars

\* Pressed(A) was dispatched with D and W held: two actions, both horizontal,
\* and W's flag still set.
C14_Witness ==
    /\ Len(inlog) = 3 /\ LastEvent = Pressed("KEY_A")
    /\ d_down /\ w_down /\ ~s_down
    /\ Cardinality(EmitsOfLast) = 2
    /\ \A i \in EmitsOfLast : sink[i].ev.code \in {"KEY_A", "KEY_D"}

\* C15 (Spec).  Spurious release is silent: dispatching Released(X) for an axis
\* key X whose held flag is already false makes no emit call, neither
\* Released(X) nor Pressed(Y) for a held partner.
C15_SpuriousReleaseSilent ==
    [][ (DispatchStep /\ Head(buf) \in {Released(k) : k \in AxisKeys}
           /\ ~HeldFlag(Head(buf).code))
        => sink' = sink ]_vars

\* C16 (Spec).  Emit failures are isolated: whatever emits fail, in the step
\* or before it, a dispatch step sets the flags as the resolver says, attempts
\* every action of the event in order after those already attempted, and
\* neither ends the loop nor makes main() return; so the flags always are
\* what the input log alone determines.
C16_EmitFailuresIsolated ==
    /\ [](\A k \in AxisKeys : HeldFlag(k) = PhysHeld(k))
    /\ [][ DispatchStep
           => LET r == Resolve(Head(buf), Flags)
              IN  /\ Flags' = r.st
                  /\ NewEmits = r.acts
                  /\ SubSeq(sink', 1, Len(sink)) = sink
                  /\ result' = result /\ errKind' = errKind
                  /\ pc' = IF Tail(buf) = <<>> THEN "top" ELSE "drain" ]_vars

\* The first of the two emits of Pressed(D) failed, the second was still made
\* and accepted, and a later event was dispatched and emitted too.
C16_Witness ==
    /\ Len(inlog) = 3 /\ Len(sink) >= 4 /\ result = "none"
    /\ ~sink[2].ok /\ sink[3].ok /\ sink[2].src = 2 /\ sink[3].src = 2
    /\ sink[4].src = 3 /\ sink[4].ok
    /\ a_down /\ d_down

\* C17 (SpecLive).  A started drain runs to completion despite cancellation:
\* with the signal set in the middle of a drain the loop's next step still
\* dispatches the head of the batch and emits its actions; every drain reaches
\* its end; and main() never returns with events of a batch undispatched.
C17_DrainCompletes ==
    /\ [](Stopped => buf = <<>>)
    /\ [][ (pc = "drain" /\ ~running)
           => (/\ buf # <<>>
               /\ inlog' = Append(inlog, Head(buf))
               /\ buf' = Tail(buf)
               /\ NewEmits = Resolve(Head(buf), Flags).acts
               /\ SubSeq(sink', 1, Len(sink)) = sink) ]_vars
    /\ (pc = "drain") ~> (pc = "top" /\ buf = <<>>)

\* The signal is set, one event of a two-event batch has been dispatched and
\* emitted, and the other is still to be dispatched.
C17_Witness ==
    /\ ~running /\ pc = "drain"
    /\ Len(inlog) = 1 /\ Len(buf) = 1 /\ Len(sink) >= 1

\* A step that changes nothing but the loop's position and the wait's outcome.
OnlyLoopMoves ==
    UNCHANGED <<running, flagvars, buf, sink, inlog, result, errKind, ungrabCalled>>

\* C18 (Spec).  Interrupted waits and timeouts are no-op iterations: a wait
\* that ends with EINTR or with nothing ready is followed by no read, no emit,
\* no flag change and no error; the loop is back at its top, about to re-check
\* the cancellation signal.
C18_InterruptedWaitNoOp ==
    [][ (pc = "poll" /\ ready' \in {"EINTR", "timeout"})
        => (pc' = "top" /\ result' = "none" /\ OnlyLoopMoves) ]_vars

\* After two keys were pressed a wait was interrupted; the loop is at its top
\* and still running.
C18_Witness ==
    /\ pc = "top" /\ ready = "EINTR" /\ result = "none"
    /\ a_down /\ s_down /\ Len(sink) >= 2

\* C19 (Spec).  Readiness without readable data never ends the run: a wait
\* that reports the source ready without POLLIN is followed by no read, no
\* emit, no flag change and no error, and from the top reached that way the
\* loop only starts the next wait, or leaves with Ok once the signal is set.
C19_NotReadableNoOp ==
    [][ /\ (pc = "poll" /\ ready' = "notPOLLIN")
           => (pc' = "top" /\ result' = "none" /\ OnlyLoopMoves)
        /\ (pc = "top" /\ ready = "notPOLLIN" /\ pc' # pc)
           => \/ running /\ pc' = "poll" /\ result' = "none"
              \/ ~running /\ pc' = "done" /\ ungrabCalled' ]_vars

\* After a key press the device reported readiness without POLLIN; the loop is
\* at its top and still running.
C19_Witness ==
    /\ pc = "top" /\ ready = "notPOLLIN" /\ result = "none" /\ running
    /\ Len(inlog) >= 1 /\ Len(sink) >= 1

TypeOK ==
    /\ pc \in {"top", "poll", "fetch", "drain", "done", "error"}
    /\ running \in BOOLEAN
    /\ a_down \in BOOLEAN /\ d_down \in BOOLEAN /\ w_down \in BOOLEAN /\ s_down \in BOOLEAN
    /\ result \in {"none", "ok", "err"}
    /\ errKind \in {"none", "poll", "read", "ungrab"}
    /\ ungrabCalled \in BOOLEAN
    /\ ready \in PollOutcomes \cup {"none"}
====
